---- MODULE Spec2Model ----
(***************************************************************************)
(* Model of the job scheduler of src/scheduler/scheduler.py: the job store *)
(* (table schedule_jobs), the recurrence resolver compute_next_run_at, the *)
(* poll loop run_loop with its immediate drain and its scheduled branch,   *)
(* the common dispatch procedure _execute_one, and the control handler     *)
(* _ControlHandler.do_GET that feeds IMMEDIATE_QUEUE.                      *)
(*                                                                         *)
(* Time is counted in ticks.  A calendar day has DayLen ticks (the source  *)
(* has 86400 seconds), a week has 7 days, and a zone is a fixed offset in  *)
(* ticks from UTC.  The variable now is the absolute instant; the store's  *)
(* NOW(), the host's datetime.now() and a zone's wall clock are now plus   *)
(* the offset of the zone in question.                                     *)
(***************************************************************************)
EXTENDS Integers, Sequences, FiniteSets, TLC

(***************************************************************************)
(* Bounds of the model.                                                    *)
(***************************************************************************)
\* last instant the clock reaches
MaxTime == 1
\* most requests the control plane accepts in a run
MaxRequests == 3
\* ticks per calendar day
DayLen == 2
\* value at which the observation counters (sends, retries) stop counting
CountCap == 3
\* longest backlog of immediate ids waiting when the loop starts
MaxBacklog == 52

(***************************************************************************)
(* Program constants.                                                      *)
(***************************************************************************)
\* SQL NULL / Python None for a datetime or a number
NULL == -1
\* a run_at text that datetime.fromisoformat rejects
Unparseable == -2
\* db.pool_size of DEFAULT_CONFIG
pool_size == 5
\* len(DOW_MAP): Mon=0 .. Sun=6
DaysPerWeek == 7
\* range(0,14) of the DAILY walk
DailyHorizon == 14
\* range(0,366) of the WEEKLY walk
WeeklyHorizon == 366
\* drain_immediate(50)
DrainCap == 50
\* int(job.get("retry_backoff_sec") or 60)
DefaultBackoff == 60
\* cfg["scheduler"]["poll_interval_sec"], in ticks
poll == 1
\* cfg["scheduler"]["batch"]
batch == 2

VARIABLE
    cfg             \* the deployment: cfg["scheduler"]["default_timezone"],
                    \* cfg["scheduler"]["mysql_session_time_zone"], and the
                    \* zone of the host (what naive datetime.now() reads)

Deployment(d, m, h) ==
    [default_timezone |-> d, mysql_session_time_zone |-> m, host_timezone |-> h]

\* DEFAULT_CONFIG on a host in the zone it names; the same on a host whose
\* clock is UTC; and a configuration whose default_timezone is not the zone
\* of the store session
Deployments ==
    { Deployment("Asia/Taipei", "+08:00", "Asia/Taipei"),
      Deployment("Asia/Taipei", "+08:00", "UTC"),
      Deployment("UTC", "+08:00", "Asia/Taipei") }

default_timezone == cfg.default_timezone
mysql_session_time_zone == cfg.mysql_session_time_zone
host_timezone == cfg.host_timezone

Min(S) == CHOOSE x \in S : \A y \in S : x <= y

(***************************************************************************)
(* Zones.  ZoneInfo(name) of the tz database, with the source's guard:     *)
(* an unknown key makes _get_zoneinfo return None.                         *)
(***************************************************************************)
NoZone == [known |-> FALSE, off |-> 0]

_get_zoneinfo(name) ==
    CASE name = "Asia/Taipei" -> [known |-> TRUE, off |-> 1]
      [] name = "UTC"         -> [known |-> TRUE, off |-> 0]
      [] OTHER                -> NoZone

\* SET time_zone=%s: the offset MySQL gives to the session
MysqlOffset(tz) ==
    CASE tz = "+08:00" -> 1
      [] tz = "+00:00" -> 0
      [] OTHER         -> 0

\* the store's NOW() at instant t, in the session zone
StoreNow(t) == t + MysqlOffset(mysql_session_time_zone)

\* datetime.now() (naive, host local) at instant t
HostNow(t) == t + _get_zoneinfo(host_timezone).off

(***************************************************************************)
(* str.upper() on the strings the model uses.                              *)
(***************************************************************************)
Upper(s) ==
    CASE s = "once"   -> "ONCE"
      [] s = "daily"  -> "DAILY"
      [] s = "weekly" -> "WEEKLY"
      [] s = "http"   -> "HTTP"
      [] s = "mqtt"   -> "MQTT"
      [] s = "Mon"    -> "MON"
      [] s = "mon"    -> "MON"
      [] s = "Monday" -> "MONDAY"
      [] s = "Tue"    -> "TUE"
      [] s = "Wed"    -> "WED"
      [] s = "Thu"    -> "THU"
      [] s = "Fri"    -> "FRI"
      [] s = "fri"    -> "FRI"
      [] s = "wednesday" -> "WEDNESDAY"
      [] s = "Sat"    -> "SAT"
      [] s = "sat"    -> "SAT"
      [] s = "Sun"    -> "SUN"
      [] s = "sunday" -> "SUNDAY"
      [] s = "Xyz"    -> "XYZ"
      [] OTHER        -> s

(***************************************************************************)
(* Times of day.  A token of times_of_day / time_of_day is a record        *)
(* [k, v]: k is the shape of the text ("HM" for HH:MM, "HMS" for HH:MM:SS, *)
(* "BLANK" for an empty string, "BAD" for anything else) and v the tick   *)
(* of the day it names.                                                    *)
(***************************************************************************)
HM(v) == [k |-> "HM", v |-> v]
HMS(v) == [k |-> "HMS", v |-> v]
BadTok == [k |-> "BAD", v |-> 0]
BlankTok == [k |-> "BLANK", v |-> 0]
NoTok == [k |-> "NULL", v |-> 0]

\* _parse_time_of_day: the time, or ok = FALSE where the code raises
\* ValueError (split(":") does not give three parts, int() fails, or
\* dtime() rejects the range).
_parse_time_of_day(x) ==
    CASE x.k = "BLANK" -> [ok |-> TRUE, t |-> 0]
      [] x.k = "HM"    -> [ok |-> x.v < DayLen, t |-> x.v]
      [] x.k = "HMS"   -> [ok |-> x.v < DayLen, t |-> x.v]
      [] OTHER         -> [ok |-> FALSE, t |-> 0]

\* _parse_times: [ok, times]; times is the deduplicated set, which the
\* resolver walks in ascending order.
_parse_times(job) ==
    LET csv   == job.times_of_day
        parts == {csv[i] : i \in {n \in DOMAIN csv : csv[n].k # "BLANK"}}
        tod   == job.time_of_day
        src   == IF parts # {} THEN parts
                 ELSE IF tod.k \notin {"NULL", "BLANK"} THEN {tod}
                 ELSE {}
    IN  IF \E p \in src : ~_parse_time_of_day(p).ok
        THEN [ok |-> FALSE, times |-> {}]
        ELSE [ok |-> TRUE, times |-> {_parse_time_of_day(p).t : p \in src}]

\* the ascending list of the values of S
RECURSIVE SortedList(_)
SortedList(S) ==
    IF S = {} THEN <<>> ELSE <<Min(S)>> \o SortedList(S \ {Min(S)})

\* out of _parse_times: the times in the order they are appended
_parse_times_out(job) ==
    LET NotBlank(x) == x.k # "BLANK"
        parts == SelectSeq(job.times_of_day, NotBlank)
        tod   == job.time_of_day
    IN  IF parts # <<>>
        THEN [i \in DOMAIN parts |-> _parse_time_of_day(parts[i]).t]
        ELSE IF tod.k \notin {"NULL", "BLANK"}
        THEN <<_parse_time_of_day(tod).t>>
        ELSE <<>>

\* the variant that returns out as it is: no uniq, no sort
_parse_times_list_unsorted(job) == _parse_times_out(job)

\* the list _parse_times returns (where it does not raise): uniq keyed by
\* (hour, minute, second), then times.sort
_parse_times_list(job) ==
    SortedList({_parse_times_out(job)[i] : i \in DOMAIN _parse_times_out(job)})

(***************************************************************************)
(* Weekdays.                                                               *)
(***************************************************************************)
DOW_MAP(t) ==
    CASE t = "Mon" -> 0 [] t = "Tue" -> 1 [] t = "Wed" -> 2 [] t = "Thu" -> 3
      [] t = "Fri" -> 4 [] t = "Sat" -> 5 [] t = "Sun" -> 6 [] OTHER -> NULL

norm(u, t) ==
    CASE u \in {"MON", "MONDAY"}    -> "Mon"
      [] u \in {"TUE", "TUESDAY"}   -> "Tue"
      [] u \in {"WED", "WEDNESDAY"} -> "Wed"
      [] u \in {"THU", "THURSDAY"}  -> "Thu"
      [] u \in {"FRI", "FRIDAY"}    -> "Fri"
      [] u \in {"SAT", "SATURDAY"}  -> "Sat"
      [] u \in {"SUN", "SUNDAY"}    -> "Sun"
      [] OTHER                      -> t

\* _parse_days: raw is the set of tokens of the CSV text or of the SET value
_parse_days(raw) ==
    {DOW_MAP(norm(Upper(t), t)) : t \in {r \in raw : r # ""}} \ {NULL}

\* datetime(d.year,d.month,d.day).weekday() of day number d; day 0 is a Monday
Weekday(d) == d % DaysPerWeek

(***************************************************************************)
(* The recurrence resolver.  A result is [raised, val]: raised where the   *)
(* code raises, else val is the next instant as a naive datetime, or NULL. *)
(***************************************************************************)
Raised == [raised |-> TRUE, val |-> NULL]
\* no call made yet
NoResult == [raised |-> FALSE, val |-> Unparseable]
Ret(v) == [raised |-> FALSE, val |-> v]

\* the sorted times of day d that lie after now: the first one, or NULL
FirstCand(times, d, nowW) ==
    LET later == {tt \in times : d * DayLen + tt > nowW}
    IN  IF later = {} THEN NULL ELSE d * DayLen + Min(later)

RECURSIVE DailyWalk(_, _, _)
DailyWalk(times, nowW, day_offset) ==
    IF day_offset >= DailyHorizon THEN NULL
    ELSE LET cand == FirstCand(times, (nowW \div DayLen) + day_offset, nowW)
         IN  IF cand # NULL THEN cand
             ELSE DailyWalk(times, nowW, day_offset + 1)

RECURSIVE WeeklyWalk(_, _, _, _)
WeeklyWalk(times, dows, nowW, i) ==
    IF i >= WeeklyHorizon THEN NULL
    ELSE LET d    == (nowW \div DayLen) + i
             best == IF Weekday(d) \in dows THEN FirstCand(times, d, nowW)
                     ELSE NULL
         IN  IF best # NULL THEN best
             ELSE WeeklyWalk(times, dows, nowW, i + 1)

\* compute_next_run_at(job, default_tz) evaluated at instant t on a host
\* whose local zone has offset hostOff
compute_next_run_at(job, default_tz, t, hostOff) ==
    LET stype   == Upper(job.schedule_type)
        tzname  == IF job.timezone = "" THEN default_tz ELSE job.timezone
        job_tz  == _get_zoneinfo(tzname)
        sess_tz == _get_zoneinfo(default_tz)
        nowW    == IF job_tz.known THEN t + job_tz.off ELSE t + hostOff
        parsed  == _parse_times(job)
        times   == parsed.times
        \* cand.astimezone(sess_tz).replace(tzinfo=None), or the naive value
        Conv(c) == IF job_tz.known /\ sess_tz.known
                   THEN c - job_tz.off + sess_tz.off ELSE c
    IN  IF ~parsed.ok THEN Raised
        ELSE IF stype = "ONCE"
        THEN IF job.run_at = NULL \/ job.run_at = Unparseable THEN Ret(NULL)
             ELSE IF job.run_at <= nowW THEN Ret(NULL)
             ELSE Ret(Conv(job.run_at))
        ELSE IF times = {} THEN Ret(NULL)
        ELSE IF stype = "DAILY"
        THEN LET c == DailyWalk(times, nowW, 0)
             IN  Ret(IF c = NULL THEN NULL ELSE Conv(c))
        ELSE IF stype = "WEEKLY"
        THEN LET dows == _parse_days(job.days_of_week)
                 best == IF dows = {} THEN NULL
                         ELSE WeeklyWalk(times, dows, nowW, 0)
             IN  Ret(IF best = NULL THEN NULL ELSE Conv(best))
        ELSE Ret(NULL)

(***************************************************************************)
(* State.                                                                  *)
(***************************************************************************)
VARIABLE
    sender          \* the Sender object: its MQTT client, mqtt_ready, and
                    \* the last _send_mqtt call with what it did

VARIABLES
    now,            \* the clock: the absolute instant, in ticks
    store,          \* table schedule_jobs: job id -> row
    queue,          \* IMMEDIATE_QUEUE: entries [id, tag]; tag is an
                    \* observation (what was in flight at the enqueue)
    INFLIGHT,       \* the in-flight set
    control_token,  \* _ControlHandler.control_token
    resp,           \* the last response of the control handler, with the
                    \* request it answers
    pc,             \* position of run_loop
    leased,         \* connections of the pool that are leased
    jobs,           \* run_loop's jobs: the rows fetch_due_jobs returned
    ji,             \* index of the job of the scheduled for-loop
    immediate_ids,  \* run_loop's immediate_ids
    ii,             \* index of the id of the immediate for-loop
    jobx,           \* the row _execute_one was called with
    sres,           \* ok of (ok, code, detail) = sender.send(job)
    sent,           \* observation: sender.send calls per job in this cycle
    retry_count,    \* observation: backoff retries scheduled for a job
                    \* since its last other update
    winCount,       \* observation: requests for the id in flight that
                    \* arrived during the immediate dispatch in progress
    nreq,           \* observation: requests the control plane has accepted
    resolved,       \* what the last compute_next_run_at(job, default_tz) of
                    \* the resolver specification gave: [raised, val]
    winRan          \* observation: ids of which a request that arrived
                    \* during the last immediate dispatch of that id has been
                    \* executed since

vars == <<cfg, sender, resolved, now, store, queue, INFLIGHT, control_token, resp, pc, leased, jobs,
          ji, immediate_ids, ii, jobx, sres, sent, retry_count, winCount,
          nreq, winRan>>

JobIds == {1, 2}
\* an id no row of the table has
MissingId == 9

(***************************************************************************)
(* Rows of schedule_jobs.                                                  *)
(***************************************************************************)
Row(id, en, stype, run_at, times, tod, days, tz, ch, mr, bo, nra) ==
    [id |-> id, enabled |-> en, schedule_type |-> stype, run_at |-> run_at,
     times_of_day |-> times, time_of_day |-> tod, days_of_week |-> days,
     timezone |-> tz, channel |-> ch, max_retries |-> mr,
     retry_backoff_sec |-> bo, next_run_at |-> nra, last_run_at |-> NULL]

\* The rows a job starts with: created by the admin tool, never run
\* (last_run_at NULL), next_run_at materialised.  T0 is the store's NOW()
\* at the first instant, so a row with next_run_at = T0 is due at once.
T0 == StoreNow(0)

InitRows(id) ==
    { Row(id, TRUE, "ONCE", T0, <<>>, NoTok, {}, "", "HTTP", 0, NULL, T0),
      Row(id, TRUE, "ONCE", T0, <<BadTok>>, NoTok, {}, "", "HTTP", 0, NULL, T0),
      Row(id, TRUE, "once", T0 + 2, <<>>, NoTok, {}, "", "MQTT", 0, NULL, T0 + 2),
      Row(id, TRUE, "DAILY", NULL, <<HM(1)>>, NoTok, {}, "", "HTTP", 0, NULL, T0),
      Row(id, TRUE, "DAILY", NULL, <<>>, BlankTok, {}, "", "HTTP", 0, NULL, T0),
      Row(id, TRUE, "DAILY", NULL, <<HM(1), BadTok>>, NoTok, {}, "", "HTTP", 0, NULL, T0 - 1),
      Row(id, TRUE, "DAILY", NULL, <<HM(1), BadTok>>, NoTok, {}, "", "HTTP", 1, 1, T0),
      Row(id, TRUE, "DAILY", NULL, <<HM(0), HMS(0)>>, NoTok, {}, "UTC", "HTTP", 1, 1, T0),
      Row(id, TRUE, "DAILY", NULL, <<>>, HMS(1), {}, "", "HTTP", 2, 0, T0),
      Row(id, FALSE, "DAILY", NULL, <<HM(0)>>, NoTok, {}, "", "SMS", 0, NULL, T0 + 2),
      Row(id, TRUE, "DAILY", NULL, <<BadTok>>, NoTok, {}, "", "SMS", 0, NULL, T0),
      Row(id, TRUE, "WEEKLY", NULL, <<HM(0)>>, NoTok, {"Tue", "sat"}, "Mars/Phobos", "HTTP", 0, NULL, T0),
      Row(id, TRUE, "WEEKLY", NULL, <<HM(0)>>, NoTok, {"Xyz"}, "", "HTTP", 0, 2, T0) }

InitRows2(id) ==
    { Row(id, TRUE, "ONCE", T0, <<>>, NoTok, {}, "", "HTTP", 0, NULL, T0),
      Row(id, TRUE, "DAILY", NULL, <<HM(1)>>, NoTok, {}, "", "HTTP", 1, 1, T0 + 1) }

(***************************************************************************)
(* Job Store Gateway.                                                      *)
(***************************************************************************)
Range(f) == {f[i] : i \in DOMAIN f}

\* fetch_job_by_id: the row, or None
HasRow(st, id) == id \in DOMAIN st

\* the variant without ORDER BY: any batch of the due rows, in any order
fetch_due_jobs_unordered(st, t, n) ==
    LET due == {j \in DOMAIN st : /\ st[j].enabled
                                  /\ st[j].next_run_at # NULL
                                  /\ st[j].next_run_at <= StoreNow(t)}
        k   == IF Cardinality(due) < n THEN Cardinality(due) ELSE n
        pick == {s \in [1..k -> due] : \A a, b \in 1..k : a < b => s[a] # s[b]}
    IN  {[i \in 1..k |-> st[s[i]]] : s \in pick}

\* fetch_due_jobs: the lists SELECT ... WHERE enabled=1 AND next_run_at IS
\* NOT NULL AND next_run_at<=NOW() ORDER BY next_run_at ASC LIMIT n can
\* return (rows with equal next_run_at come in any order)
fetch_due_jobs(st, t, n) ==
    LET due == {j \in DOMAIN st : /\ st[j].enabled
                                  /\ st[j].next_run_at # NULL
                                  /\ st[j].next_run_at <= StoreNow(t)}
        k   == IF Cardinality(due) < n THEN Cardinality(due) ELSE n
        pick == {s \in [1..k -> due] :
                   /\ \A a, b \in 1..k : a < b =>
                        /\ s[a] # s[b]
                        /\ st[s[a]].next_run_at <= st[s[b]].next_run_at
                   /\ \A j \in due \ Range(s) : \A a \in 1..k :
                        st[s[a]].next_run_at <= st[j].next_run_at}
    IN  {[i \in 1..k |-> st[s[i]]] : s \in pick}

\* update_job_after_success at instant t
update_job_after_success(st, job_id, next_run_at, disable, t) ==
    IF ~HasRow(st, job_id) THEN st
    ELSE IF disable \/ next_run_at = NULL
    THEN [st EXCEPT ![job_id].enabled = FALSE,
                    ![job_id].last_run_at = StoreNow(t)]
    ELSE [st EXCEPT ![job_id].last_run_at = StoreNow(t),
                    ![job_id].next_run_at = next_run_at,
                    ![job_id].enabled = TRUE]

\* the variant whose UPDATE sets next_run_at alone
update_job_after_failure_next_only(st, job_id, max_retries, backoff_sec, t) ==
    IF max_retries # NULL /\ max_retries > 0
    THEN LET retry_at == HostNow(t) +
                 (IF backoff_sec \in {NULL, 0} THEN DefaultBackoff
                  ELSE backoff_sec)
         IN  [st |-> IF HasRow(st, job_id)
                     THEN [st EXCEPT ![job_id].next_run_at = retry_at]
                     ELSE st,
              retry_at |-> retry_at]
    ELSE [st |-> st, retry_at |-> NULL]

\* update_job_after_failure at instant t: [st, retry_at]
update_job_after_failure(st, job_id, max_retries, backoff_sec, t) ==
    IF max_retries # NULL /\ max_retries > 0
    THEN LET retry_at == HostNow(t) +
                 (IF backoff_sec \in {NULL, 0} THEN DefaultBackoff
                  ELSE backoff_sec)
         IN  [st |-> IF HasRow(st, job_id)
                     THEN [st EXCEPT ![job_id].next_run_at = retry_at,
                                     ![job_id].last_run_at = StoreNow(t)]
                     ELSE st,
              retry_at |-> retry_at]
    ELSE [st |-> st, retry_at |-> NULL]

(***************************************************************************)
(* Sender.                                                                 *)
(***************************************************************************)
\* the values of ok Sender.send(job) can return: an HTTP or MQTT send
\* succeeds or fails, any other channel gives (False, None, "Unsupported
\* channel")
SendOutcomes(job) ==
    IF Upper(job.channel) \in {"HTTP", "MQTT"} THEN {"ok", "fail"}
    ELSE {"fail"}

(***************************************************************************)
(* Sender: the MQTT client.                                                *)
(***************************************************************************)
\* (ok, code, detail) as Sender.send returns it
SendRet(ok, code, detail) == [ok |-> ok, code |-> code, detail |-> detail]

\* what mqtt.publish does: returns info with info.rc = rc, or raises
Pub(raised, rc) == [raised |-> raised, rc |-> rc]
PublishOutcomes == {Pub(FALSE, rc) : rc \in {0, 1, 4, 15}} \cup {Pub(TRUE, 0)}

\* an MQTT job as _send_mqtt reads it, and what the broker side does
\* during the call: whether mqtt.connect raises, what publish does
Call(topic, qos, ready, connect_raises, pub) ==
    [topic |-> topic, qos |-> qos, ready |-> ready,
     connect_raises |-> connect_raises, pub |-> pub]
NoCall == Call("", 0, FALSE, FALSE, Pub(FALSE, 0))

\* what a call did: its return value, the number of mqtt.connect calls it
\* made, whether it called mqtt.publish
Did(ret, connects, published) ==
    [ret |-> ret, connects |-> connects, published |-> published]
NoOut == Did(SendRet(FALSE, NULL, "none"), 0, FALSE)

Topics == {"", "dev/1"}
QosLevels == {0, 1}

\* Sender.__init__: self.mqtt is None when paho is not installed;
\* mqtt_ready=False
SenderObj(has_mqtt, ready, call, out) ==
    [has_mqtt |-> has_mqtt, mqtt_ready |-> ready, call |-> call, out |-> out]
NewSender == SenderObj(TRUE, FALSE, NoCall, NoOut)

\* the variant that tries the connection a second time when the first
\* attempt raises
_send_mqtt_retrying(s, c) ==
    IF ~s.has_mqtt
    THEN Did(SendRet(FALSE, NULL, "paho-mqtt not available"), 0, FALSE)
    ELSE IF c.topic = ""
    THEN Did(SendRet(FALSE, NULL, "mqtt_topic empty"), 0, FALSE)
    ELSE IF ~s.mqtt_ready /\ c.connect_raises
    THEN Did(SendRet(FALSE, NULL, "MQTT reconnect failed"), 2, FALSE)
    ELSE LET n == IF s.mqtt_ready THEN 0 ELSE 1
         IN  IF c.pub.raised
             THEN Did(SendRet(FALSE, NULL, "MQTT publish error"), n, TRUE)
             ELSE Did(SendRet(c.pub.rc = 0, c.pub.rc, "published"), n, TRUE)

\* Sender._send_mqtt on the sender s for the call c
_send_mqtt(s, c) ==
    IF ~s.has_mqtt
    THEN Did(SendRet(FALSE, NULL, "paho-mqtt not available"), 0, FALSE)
    ELSE IF c.topic = ""
    THEN Did(SendRet(FALSE, NULL, "mqtt_topic empty"), 0, FALSE)
    ELSE IF ~s.mqtt_ready /\ c.connect_raises
    THEN Did(SendRet(FALSE, NULL, "MQTT reconnect failed"), 1, FALSE)
    ELSE LET n == IF s.mqtt_ready THEN 0 ELSE 1
         IN  IF c.pub.raised
             THEN Did(SendRet(FALSE, NULL, "MQTT publish error"), n, TRUE)
             ELSE Did(SendRet(c.pub.rc = 0, c.pub.rc, "published"), n, TRUE)

(***************************************************************************)
(* The common dispatch procedure after sender.send has returned ok, for    *)
(* the row job the send was made with, on store st at instant t.  The      *)
(* result is [st, raised, retried]: the store after it, whether an         *)
(* exception left it, and whether it scheduled a backoff retry.            *)
(***************************************************************************)
\* int(job.get("max_retries") or 0), int(job.get("retry_backoff_sec") or 60)
MaxRetriesOf(job) == IF job.max_retries = NULL THEN 0 ELSE job.max_retries
BackoffOf(job) ==
    IF job.retry_backoff_sec \in {NULL, 0} THEN DefaultBackoff
    ELSE job.retry_backoff_sec

\* fetch_job_by_id(conn, job_id) or job
Fresh(st, job) == IF HasRow(st, job.id) THEN st[job.id] ELSE job

PostOutcome(st, raised, retried) ==
    [st |-> st, raised |-> raised, retried |-> retried]

\* _execute_one, lines 465-499
_execute_one(st, job, ok, t) ==
    LET fresh    == Fresh(st, job)
        disable  == Upper(fresh.schedule_type) = "ONCE"
        next_run == compute_next_run_at(fresh, default_timezone, t,
                                        _get_zoneinfo(host_timezone).off)
        f        == update_job_after_failure(st, job.id, MaxRetriesOf(job),
                                             BackoffOf(job), t)
    IN  IF ok
        THEN IF next_run.raised THEN PostOutcome(st, TRUE, FALSE)
             ELSE PostOutcome(update_job_after_success(st, job.id,
                                  next_run.val, disable, t), FALSE, FALSE)
        ELSE IF f.retry_at # NULL THEN PostOutcome(f.st, FALSE, TRUE)
        ELSE IF next_run.raised THEN PostOutcome(st, TRUE, FALSE)
        ELSE PostOutcome(update_job_after_success(st, job.id, next_run.val,
                                                  FALSE, t), FALSE, FALSE)

\* a copy that has drifted from _execute_one: the failure branch without
\* retry passes disable where _execute_one passes False
LoopDispatch_drifted(st, job, ok, t) ==
    LET fresh    == Fresh(st, job)
        disable  == Upper(fresh.schedule_type) = "ONCE"
        next_run == compute_next_run_at(fresh, default_timezone, t,
                                        _get_zoneinfo(host_timezone).off)
        f        == update_job_after_failure(st, job.id, MaxRetriesOf(job),
                                             BackoffOf(job), t)
    IN  IF ok
        THEN IF next_run.raised THEN PostOutcome(st, TRUE, FALSE)
             ELSE PostOutcome(update_job_after_success(st, job.id,
                                  next_run.val, disable, t), FALSE, FALSE)
        ELSE IF f.retry_at # NULL THEN PostOutcome(f.st, FALSE, TRUE)
        ELSE IF next_run.raised THEN PostOutcome(st, TRUE, FALSE)
        ELSE PostOutcome(update_job_after_success(st, job.id, next_run.val,
                                                  disable, t), FALSE, FALSE)

\* run_loop, lines 573-600: the scheduled branch's inline copy
LoopDispatch(st, job, ok, t) ==
    LET fresh    == Fresh(st, job)
        disable  == Upper(fresh.schedule_type) = "ONCE"
        next_run == compute_next_run_at(fresh, default_timezone, t,
                                        _get_zoneinfo(host_timezone).off)
        f        == update_job_after_failure(st, job.id, MaxRetriesOf(job),
                                             BackoffOf(job), t)
    IN  IF ok
        THEN IF next_run.raised THEN PostOutcome(st, TRUE, FALSE)
             ELSE PostOutcome(update_job_after_success(st, job.id,
                                  next_run.val, disable, t), FALSE, FALSE)
        ELSE IF f.retry_at # NULL THEN PostOutcome(f.st, FALSE, TRUE)
        ELSE IF next_run.raised THEN PostOutcome(st, TRUE, FALSE)
        ELSE PostOutcome(update_job_after_success(st, job.id, next_run.val,
                                                  FALSE, t), FALSE, FALSE)

Bump(n) == IF n < CountCap THEN n + 1 ELSE n

\* the retries counted for job id after a dispatch with outcome o
CountRetry(rc, id, o) ==
    IF id \notin DOMAIN rc \/ o.raised THEN rc
    ELSE IF o.retried THEN [rc EXCEPT ![id] = Bump(rc[id])]
    ELSE [rc EXCEPT ![id] = 0]

(***************************************************************************)
(* Immediate-run control plane.                                            *)
(***************************************************************************)
\* A request: path, and the job_id and token query parameters and the
\* X-Token header, each "" when absent (parse_qs drops blank values,
\* headers.get gives None).
Req(path, job_id, token, xtoken) ==
    [path |-> path, job_id |-> job_id, token |-> token, xtoken |-> xtoken]

Paths == {"/run_immediate", "/health", "/other"}
JobIdTexts == {"", "abc", "1", "2", "9"}
Tokens == {"", "SECRET", "wrong"}

Requests ==
    {Req(p, j, q, h) : p \in Paths, j \in JobIdTexts, q \in Tokens, h \in Tokens}

\* the requests of the engine specification: authorised /run_immediate
\* requests for job 1 (job 2 is dispatched by the scheduled path alone)
EngineRequests == {Req("/run_immediate", "1", "", "SECRET")}

\* int(job_id): the number, or NULL where int() raises
ParseInt(s) ==
    CASE s = "1" -> 1 [] s = "2" -> 2 [] s = "9" -> 9 [] OTHER -> NULL

\* the status code do_GET answers r with
ResponseCode(r, ctoken) ==
    LET token == IF r.token # "" THEN r.token ELSE r.xtoken
    IN  IF r.path \notin {"/run_immediate", "/health"} THEN 404
        ELSE IF r.path = "/health" THEN 200
        ELSE IF ctoken # "" /\ token # ctoken THEN 403
        ELSE IF r.job_id = "" THEN 400
        ELSE IF ParseInt(r.job_id) = NULL THEN 400
        ELSE 200

Enqueues(r, ctoken) == r.path = "/run_immediate" /\ ResponseCode(r, ctoken) = 200

\* what is in flight when a request for id arrives (an observation kept
\* with the queue entry, for the requests that name job ObservedId): "S" the
\* scheduled dispatch of id, "I1"/"I2" the immediate dispatch of id (first /
\* later request during it), "-" neither
ObservedId == 1

TagOf(id) ==
    IF id # ObservedId THEN "-"
    ELSE IF pc = "sched_send" /\ jobs[ji].id = id THEN "S"
    ELSE IF pc = "imm_send" /\ jobx.id = id
    THEN (IF winCount = 0 THEN "I1" ELSE "I2")
    ELSE "-"

\* enqueue_immediate
enqueue_immediate(q, job_id, tag) == Append(q, [id |-> job_id, tag |-> tag])

\* the variant without the cap: the whole queue is taken
drain_immediate_uncapped(q, max_n) ==
    [ids |-> q, rest |-> <<>>]

\* drain_immediate(max_n): [ids, rest]
drain_immediate(q, max_n) ==
    LET n == IF Len(q) < max_n THEN Len(q) ELSE max_n
    IN  [ids |-> SubSeq(q, 1, n), rest |-> SubSeq(q, n + 1, Len(q))]

NoResp == [code |-> 0, req |-> Req("", "", "", "")]

\* the variant that runs the job from the handler: an accepted request
\* also calls the Sender for the job
do_GET_dispatching(r) ==
    LET code == ResponseCode(r, control_token)
        jid  == ParseInt(r.job_id)
    IN  /\ Enqueues(r, control_token) => nreq < MaxRequests
        /\ resp' = [code |-> code, req |-> r]
        /\ IF Enqueues(r, control_token)
           THEN /\ queue' = enqueue_immediate(queue, jid, TagOf(jid))
                /\ nreq' = nreq + 1
                /\ winCount' = IF TagOf(jid) \in {"I1", "I2"}
                               THEN Bump(winCount) ELSE winCount
                /\ sent' = IF jid \in JobIds
                           THEN [sent EXCEPT ![jid] = Bump(sent[jid])]
                           ELSE sent
           ELSE UNCHANGED <<queue, winCount, nreq, sent>>
        /\ UNCHANGED <<cfg, sender, resolved, now, store, INFLIGHT, control_token, pc, leased, jobs,
                       ji, immediate_ids, ii, jobx, sres, retry_count,
                       winRan>>

\* _ControlHandler.do_GET
do_GET(r) ==
    LET code == ResponseCode(r, control_token)
        jid  == ParseInt(r.job_id)
    IN  /\ Enqueues(r, control_token) => nreq < MaxRequests
        /\ resp' = [code |-> code, req |-> r]
        /\ IF Enqueues(r, control_token)
           THEN /\ queue' = enqueue_immediate(queue, jid, TagOf(jid))
                /\ nreq' = nreq + 1
                /\ winCount' = IF TagOf(jid) \in {"I1", "I2"}
                               THEN Bump(winCount) ELSE winCount
           ELSE UNCHANGED <<queue, winCount, nreq>>
        /\ UNCHANGED <<cfg, sender, resolved, now, store, INFLIGHT, control_token, pc, leased, jobs,
                       ji, immediate_ids, ii, jobx, sres, sent, retry_count,
                       winRan>>

(***************************************************************************)
(* run_loop: one action per step of the while-loop body.                   *)
(***************************************************************************)
NoJob == Row(0, FALSE, "", NULL, <<>>, NoTok, {}, "", "", 0, NULL, NULL)
NoSent == [j \in JobIds |-> 0]

\* conn=pool.get_connection(); set_mysql_session_tz(conn, mysql_tz)
Lease ==
    /\ pc = "start"
    /\ IF leased < pool_size
       THEN /\ leased' = leased + 1
            /\ pc' = "fetch"
       ELSE /\ pc' = "sleep"
            /\ UNCHANGED leased
    /\ UNCHANGED <<cfg, sender, resolved, now, store, queue, INFLIGHT, control_token, resp, jobs, ji,
                   immediate_ids, ii, jobx, sres, sent, retry_count, winCount,
                   nreq, winRan>>

\* the store is unreachable or a query fails: pool.get_connection() raises
\* (no connection is leased), or fetch_due_jobs raises on the leased
\* connection; the except of run_loop (line 603) takes it, conn.close() is
\* not reached
StoreError ==
    /\ pc \in {"start", "fetch"}
    /\ pc' = "sleep"
    /\ UNCHANGED <<cfg, sender, resolved, now, store, queue, INFLIGHT, control_token,
                   resp, leased, jobs, ji, immediate_ids, ii, jobx, sres, sent,
                   retry_count, winCount, nreq, winRan>>

\* jobs=fetch_due_jobs(conn, batch)
FetchDue ==
    /\ pc = "fetch"
    /\ jobs' \in fetch_due_jobs(store, now, batch)
    /\ ji' = 1
    /\ pc' = "drain"
    /\ UNCHANGED <<cfg, sender, resolved, now, store, queue, INFLIGHT, control_token, resp, leased,
                   immediate_ids, ii, jobx, sres, sent, retry_count, winCount,
                   nreq, winRan>>

\* immediate_ids = drain_immediate(50)
Drain ==
    /\ pc = "drain"
    /\ immediate_ids' = drain_immediate(queue, DrainCap).ids
    /\ queue' = drain_immediate(queue, DrainCap).rest
    /\ ii' = 1
    /\ pc' = "imm"
    /\ UNCHANGED <<cfg, sender, resolved, now, store, INFLIGHT, control_token, resp, leased, jobs, ji,
                   jobx, sres, sent, retry_count, winCount, winRan, nreq>>

\* for jid in immediate_ids: fetch the row, consult INFLIGHT, and enter
\* _execute_one up to the call of sender.send (lines 539-552, 437-463)
ImmBegin ==
    /\ pc = "imm"
    /\ ii <= Len(immediate_ids)
    /\ LET e   == immediate_ids[ii]
           jid == e.id
       IN  IF ~HasRow(store, jid)
           THEN \* "[IMMEDIATE] Job#... not found"
                /\ ii' = ii + 1
                /\ UNCHANGED <<pc, INFLIGHT, jobx, sres, sent, winCount,
                               winRan>>
           ELSE IF jid \in INFLIGHT
           THEN \* "[IMMEDIATE] Job#... already inflight"
                /\ ii' = ii + 1
                /\ winRan' = IF e.tag = "I1" THEN winRan \ {jid} ELSE winRan
                /\ UNCHANGED <<pc, INFLIGHT, jobx, sres, sent, winCount>>
           ELSE /\ INFLIGHT' = INFLIGHT \cup {jid}
                /\ jobx' = store[jid]
                /\ sent' = [sent EXCEPT ![jid] = Bump(sent[jid])]
                /\ winCount' = 0
                /\ winRan' = IF e.tag \in {"I1", "I2"} THEN winRan \cup {jid}
                             ELSE winRan
                /\ sres' = "none"
                /\ pc' = "imm_send"
                /\ UNCHANGED ii
    /\ UNCHANGED <<cfg, sender, resolved, now, store, queue, control_token, resp, leased, jobs, ji,
                   immediate_ids, retry_count, nreq>>

\* the variant without the except of the immediate loop: an exception of
\* _execute_one leaves the for and the try of the cycle (the finally has
\* discarded the id)
ImmFinish_unconfined ==
    /\ pc = "imm_send"
    /\ sres' \in SendOutcomes(jobx)
    /\ LET o == _execute_one(store, jobx, sres' = "ok", now)
       IN  /\ store' = o.st
           /\ retry_count' = CountRetry(retry_count, jobx.id, o)
           /\ pc' = IF o.raised THEN "sleep" ELSE "imm"
    /\ INFLIGHT' = INFLIGHT \ {jobx.id}
    /\ ii' = ii + 1
    /\ jobx' = NoJob
    /\ winCount' = 0
    /\ UNCHANGED <<cfg, sender, resolved, now, queue, control_token, resp, leased, jobs, ji,
                   immediate_ids, sent, nreq, winRan>>

\* sender.send(job) returns inside _execute_one; then the rest of
\* _execute_one, the finally that discards the id from INFLIGHT, and the
\* except of the immediate loop, which confines an exception to the id
ImmFinish ==
    /\ pc = "imm_send"
    /\ sres' \in SendOutcomes(jobx)
    /\ LET o == _execute_one(store, jobx, sres' = "ok", now)
       IN  /\ store' = o.st
           /\ retry_count' = CountRetry(retry_count, jobx.id, o)
    /\ INFLIGHT' = INFLIGHT \ {jobx.id}
    /\ ii' = ii + 1
    /\ jobx' = NoJob
    /\ winCount' = 0
    /\ pc' = "imm"
    /\ UNCHANGED <<cfg, sender, resolved, now, queue, control_token, resp, leased, jobs, ji,
                   immediate_ids, sent, nreq, winRan>>

\* the immediate for-loop is over
ImmDone ==
    /\ pc = "imm"
    /\ ii > Len(immediate_ids)
    /\ pc' = "sched"
    /\ UNCHANGED <<cfg, sender, resolved, now, store, queue, INFLIGHT, control_token, resp, leased,
                   jobs, ji, immediate_ids, ii, jobx, sres, sent, retry_count,
                   winCount, winRan, nreq>>

\* for job in jobs: up to the call of sender.send (lines 560-572)
SchedBegin ==
    /\ pc = "sched"
    /\ ji <= Len(jobs)
    /\ sent' = [sent EXCEPT ![jobs[ji].id] = Bump(sent[jobs[ji].id])]
    /\ sres' = "none"
    /\ pc' = "sched_send"
    /\ UNCHANGED <<cfg, sender, resolved, now, store, queue, INFLIGHT, control_token, resp, leased,
                   jobs, ji, immediate_ids, ii, jobx, retry_count,
                   winCount, winRan, nreq>>

\* the uncaught variant: an exception of the scheduled dispatch ends the
\* loop thread
SchedFinish_uncaught ==
    /\ pc = "sched_send"
    /\ sres' \in SendOutcomes(jobs[ji])
    /\ LET o == LoopDispatch(store, jobs[ji], sres' = "ok", now)
       IN  /\ store' = o.st
           /\ retry_count' = CountRetry(retry_count, jobs[ji].id, o)
           /\ pc' = IF o.raised THEN "dead" ELSE "sched"
    /\ ji' = ji + 1
    /\ UNCHANGED <<cfg, sender, resolved, now, queue, INFLIGHT, control_token, resp, leased, jobs,
                   immediate_ids, ii, jobx, sent, winCount, nreq, winRan>>

\* sender.send(job) returns in the scheduled branch; then lines 573-600.
\* An exception leaves the for-loop and the try (line 603), so conn.close()
\* is not reached.
SchedFinish ==
    /\ pc = "sched_send"
    /\ sres' \in SendOutcomes(jobs[ji])
    /\ LET o == LoopDispatch(store, jobs[ji], sres' = "ok", now)
       IN  /\ store' = o.st
           /\ retry_count' = CountRetry(retry_count, jobs[ji].id, o)
           /\ pc' = IF o.raised THEN "sleep" ELSE "sched"
    /\ ji' = ji + 1
    /\ UNCHANGED <<cfg, sender, resolved, now, queue, INFLIGHT, control_token, resp, leased, jobs,
                   immediate_ids, ii, jobx, sent, winCount, nreq, winRan>>

\* the scheduled for-loop is over: conn.close()
Close ==
    /\ pc = "sched"
    /\ ji > Len(jobs)
    /\ leased' = leased - 1
    /\ pc' = "sleep"
    /\ UNCHANGED <<cfg, sender, resolved, now, store, queue, INFLIGHT, control_token, resp, jobs, ji,
                   immediate_ids, ii, jobx, sres, sent, retry_count, winCount,
                   nreq, winRan>>

\* time.sleep(poll); the locals of the cycle that is over are dead
Sleep ==
    /\ pc = "sleep"
    /\ now + poll <= MaxTime
    /\ now' = now + poll
    /\ pc' = "start"
    /\ jobs' = <<>>
    /\ ji' = 1
    /\ immediate_ids' = <<>>
    /\ ii' = 1
    /\ sent' = NoSent
    /\ sres' = "none"
    /\ UNCHANGED <<cfg, sender, resolved, store, queue, INFLIGHT, control_token, resp, leased,
                   jobx, retry_count, winCount, nreq, winRan>>

(***************************************************************************)
(* Specifications.                                                         *)
(***************************************************************************)
Init ==
    /\ sender = NewSender
    /\ cfg \in Deployments
    /\ resolved = NoResult
    /\ now = 0
    /\ store \in {[j \in JobIds |-> IF j = 1 THEN r1 ELSE r2] :
                    r1 \in InitRows(1), r2 \in InitRows2(2)}
    /\ queue = <<>>
    /\ INFLIGHT = {}
    /\ control_token = "SECRET"
    /\ resp = NoResp
    /\ pc = "start"
    /\ leased = 0
    /\ jobs = <<>>
    /\ ji = 1
    /\ immediate_ids = <<>>
    /\ ii = 1
    /\ jobx = NoJob
    /\ sres = "none"
    /\ sent = NoSent
    /\ retry_count = [j \in JobIds |-> 0]
    /\ winCount = 0
    /\ nreq = 0
    /\ winRan = {}

Next ==
    \/ \E r \in EngineRequests : do_GET(r)
    \/ Lease
    \/ StoreError
    \/ FetchDue
    \/ Drain
    \/ ImmBegin
    \/ ImmFinish
    \/ ImmDone
    \/ SchedBegin
    \/ SchedFinish
    \/ Close
    \/ Sleep

Spec == Init /\ [][Next]_vars

\* The control plane alone: every request shape, with and without a
\* configured token.
InitControl ==
    /\ sender = NewSender
    /\ cfg = Deployment("Asia/Taipei", "+08:00", "Asia/Taipei")
    /\ resolved = NoResult
    /\ now = 0
    /\ store = [j \in JobIds |->
                  Row(j, TRUE, "DAILY", NULL, <<HM(1)>>, NoTok, {}, "", "HTTP",
                      0, NULL, T0)]
    /\ queue = <<>>
    /\ INFLIGHT = {}
    /\ control_token \in {"", "SECRET"}
    /\ resp = NoResp
    /\ pc = "start"
    /\ leased = 0
    /\ jobs = <<>>
    /\ ji = 1
    /\ immediate_ids = <<>>
    /\ ii = 1
    /\ jobx = NoJob
    /\ sres = "none"
    /\ sent = NoSent
    /\ retry_count = [j \in JobIds |-> 0]
    /\ winCount = 0
    /\ nreq = 0
    /\ winRan = {}

NextControl == \E r \in Requests : do_GET(r)

SpecControl == InitControl /\ [][NextControl]_vars

TypeOK ==
    /\ now \in 0..MaxTime
    /\ Len(queue) <= MaxRequests
    /\ pc \in {"start", "fetch", "drain", "imm", "imm_send", "sched",
               "sched_send", "sleep"}

(***************************************************************************)
(* Vocabulary of the properties.                                           *)
(***************************************************************************)
\* the step in which the scheduled dispatch of job j completes: sender.send
\* has returned sres' and the post-dispatch code has run
SchedFinishStep(j) ==
    pc = "sched_send" /\ jobs[ji].id = j /\ pc' # "sched_send"

\* the same for the immediate dispatch of job j
ImmFinishStep(j) ==
    pc = "imm_send" /\ jobx.id = j /\ pc' # "imm_send"

FinishStep(j) == SchedFinishStep(j) \/ ImmFinishStep(j)

\* the row the dispatch in progress made its send with
DispatchedRow == IF pc = "sched_send" THEN jobs[ji] ELSE jobx

\* a failed send that the retry rule takes (max_retries > 0)
RetryCase == sres' = "fail" /\ MaxRetriesOf(DispatchedRow) > 0

IsOnce(row) == Upper(row.schedule_type) = "ONCE"

IsRecurring(row) == Upper(row.schedule_type) \in {"DAILY", "WEEKLY"}

\* a DAILY or WEEKLY row whose schedule fields are malformed: a time token
\* that does not parse, no time at all, or (WEEKLY) no recognisable weekday
Malformed(row) ==
    /\ IsRecurring(row)
    /\ \/ ~_parse_times(row).ok
       \/ _parse_times(row).times = {}
       \/ /\ Upper(row.schedule_type) = "WEEKLY"
          /\ _parse_days(row.days_of_week) = {}

\* the row is eligible for fetch_due_jobs at instant t
Due(row, t) ==
    row.enabled /\ row.next_run_at # NULL /\ row.next_run_at <= StoreNow(t)

Ids(seq) == {seq[i].id : i \in DOMAIN seq}

Occurrences(seq, id) == Cardinality({i \in DOMAIN seq : seq[i].id = id})

(***************************************************************************)
(* C1.                                                                     *)
(***************************************************************************)
\* C1: a successful dispatch, scheduled or immediate, of a job
\* whose row is of type ONCE leaves the row with enabled = false and with
\* next_run_at unchanged, whatever times_of_day, time_of_day, timezone and
\* run_at hold.
C1_OnceSunset ==
    [][\A j \in JobIds :
         (FinishStep(j) /\ sres' = "ok" /\ IsOnce(store[j]))
           => /\ ~store'[j].enabled
              /\ store'[j].next_run_at = store[j].next_run_at]_vars

(***************************************************************************)
(* C2.                                                                     *)
(***************************************************************************)
\* C2: a dispatch by the poll loop of a DAILY or WEEKLY job
\* with malformed schedule fields leaves the row with enabled = false, so
\* that no later cycle fetches or sends it.  (A failed send that the retry
\* rule takes is the case of C7 and C8 and is left out here.)
C2_MalformedPaused ==
    [][\A j \in JobIds :
         (SchedFinishStep(j) /\ Malformed(store[j]) /\ ~RetryCase)
           => ~store'[j].enabled]_vars

(***************************************************************************)
(* C3.                                                                     *)
(***************************************************************************)
\* C3: every update of a row by a dispatch leaves it either with
\* enabled = false or with a next_run_at that is not null and strictly
\* later than the instant of the update; no update writes a null
\* next_run_at; and where the resolver gives none for a recurring job the
\* update leaves enabled = false.
C3_PausedOrFuture ==
    [][\A j \in JobIds :
         (FinishStep(j) /\ store'[j] # store[j])
           => /\ \/ ~store'[j].enabled
                 \/ /\ store'[j].next_run_at # NULL
                    /\ store'[j].next_run_at > StoreNow(now)
              /\ store'[j].next_run_at # store[j].next_run_at
                   => store'[j].next_run_at # NULL
              /\ ( /\ ~RetryCase
                   /\ ~IsOnce(store[j])
                   /\ compute_next_run_at(store[j], default_timezone, now,
                          _get_zoneinfo(host_timezone).off) = Ret(NULL) )
                   => ~store'[j].enabled]_vars

(***************************************************************************)
(* C4.                                                                     *)
(***************************************************************************)
\* C4: of the requests for one id that arrive while an
\* immediate execution of that id is in flight, exactly one is executed:
\* a later request of the window is not executed once a request of the
\* same window has been.
C4_OneOfWindow ==
    [][(pc = "imm" /\ pc' = "imm_send" /\ immediate_ids[ii].tag = "I2")
         => immediate_ids[ii].id \notin winRan]_vars

(***************************************************************************)
(* C5.                                                                     *)
(***************************************************************************)
\* C5: a job that is in the list fetch_due_jobs returned and
\* is drained once from the immediate queue in the same cycle is sent
\* exactly once in that cycle: never a second time.
C5_SentOnce ==
    \A j \in JobIds :
        (j \in Ids(jobs) /\ Occurrences(immediate_ids, j) = 1)
          => sent[j] <= 1

(***************************************************************************)
(* C6.                                                                     *)
(***************************************************************************)
\* C6: a request that arrived while the scheduled path was
\* mid-dispatch of the same id causes no send: no immediate send is ever
\* in progress for such a request.
C6_NoSendAfterScheduled ==
    ~(pc = "imm_send" /\ immediate_ids[ii].tag = "S")

(***************************************************************************)
(* C7.                                                                     *)
(***************************************************************************)
\* C7: a failed dispatch of a job with max_retries > 0 sets
\* next_run_at = now + retry_backoff_sec and last_run_at = now and changes
\* nothing else.
C7_RetryAtBackoff ==
    [][\A j \in JobIds :
         (FinishStep(j) /\ RetryCase)
           => store' = [store EXCEPT
                  ![j].next_run_at =
                      StoreNow(now) + DispatchedRow.retry_backoff_sec,
                  ![j].last_run_at = StoreNow(now)]]_vars

(***************************************************************************)
(* C8.                                                                     *)
(***************************************************************************)
\* C8: the backoff retries of a job with max_retries = k > 0
\* whose sends keep failing run out: the poll loop (no immediate run being
\* requested) schedules no more than k retries in a row.
C8_RetriesExhaust ==
    \A j \in JobIds :
        (nreq = 0 /\ store[j].max_retries > 0)
          => retry_count[j] <= store[j].max_retries

(***************************************************************************)
(* C9.                                                                     *)
(***************************************************************************)
\* C9: a failed dispatch of a job with max_retries 0 or unset
\* gets the update of a success (a next occurrence and enabled = true, or
\* enabled = false), so the job is not due again at the next cycle.
C9_FailureNotDueAgain ==
    [][\A j \in JobIds :
         (FinishStep(j) /\ sres' = "fail" /\ MaxRetriesOf(DispatchedRow) = 0)
           => /\ ~Due(store'[j], now)
              /\ store'[j].last_run_at = StoreNow(now)]_vars

(***************************************************************************)
(* C10.                                                                    *)
(***************************************************************************)
\* C10: with a control token configured, a /run_immediate
\* request is answered 403 exactly when both its token query parameter and
\* its X-Token header differ from the configured token.
C10_EitherTokenAdmits ==
    (resp.req.path = "/run_immediate" /\ control_token # "")
      => (resp.code = 403 <=> (/\ resp.req.token # control_token
                               /\ resp.req.xtoken # control_token))

(***************************************************************************)
(* C11.                                                                    *)
(***************************************************************************)
\* the request presents the configured token, in the query or in the header
\* (no token configured: every request is authorised)
Authorised(r) ==
    control_token = "" \/ r.token = control_token \/ r.xtoken = control_token

\* C11: a /run_immediate request that fails authorisation is answered 403
\* and an authorised one with a missing or non-integer job_id 400; a 400,
\* 403 or 404 leaves the immediate queue as it is, and a 200 to
\* /run_immediate appends exactly one entry, the parsed job id.
C11_Responses ==
    [][LET r == resp'.req
       IN  /\ (r.path = "/run_immediate" /\ ~Authorised(r))
                => resp'.code = 403
           /\ (r.path = "/run_immediate" /\ Authorised(r)
                 /\ ParseInt(r.job_id) = NULL)
                => resp'.code = 400
           /\ resp'.code \in {400, 403, 404} => queue' = queue
           /\ (r.path = "/run_immediate" /\ resp'.code = 200)
                => /\ Len(queue') = Len(queue) + 1
                   /\ SubSeq(queue', 1, Len(queue)) = queue
                   /\ queue'[Len(queue')].id = ParseInt(r.job_id)]_vars

(***************************************************************************)
(* C12.                                                                    *)
(***************************************************************************)
\* C12: an immediate run of a job whose materialised next_run_at lies in
\* the future leaves the job's enabled and next_run_at as they were.
C12_ImmediateKeepsSchedule ==
    [][\A j \in JobIds :
         (ImmFinishStep(j) /\ store[j].next_run_at # NULL
            /\ store[j].next_run_at > StoreNow(now))
           => /\ store'[j].enabled = store[j].enabled
              /\ store'[j].next_run_at = store[j].next_run_at]_vars

(***************************************************************************)
(* C13.                                                                    *)
(***************************************************************************)
\* The engine with the store reachable: no connection or query error.
NextReachable ==
    \/ \E r \in EngineRequests : do_GET(r)
    \/ Lease
    \/ FetchDue
    \/ Drain
    \/ ImmBegin
    \/ ImmFinish
    \/ ImmDone
    \/ SchedBegin
    \/ SchedFinish
    \/ Close
    \/ Sleep

SpecReachable == Init /\ [][NextReachable]_vars

\* the schedule fields of the row are well formed
WellFormed(row) == _parse_times(row).ok /\ ~Malformed(row)

\* C13: with the store reachable and every send returning, a well-formed
\* job that is enabled and due is dispatched whatever the other due jobs
\* hold: when the last cycle of the run is over, no well-formed job that
\* has been due since the first instant is still waiting for its first
\* dispatch.
C13_DueJobsDispatched ==
    (pc = "sleep" /\ now = MaxTime)
      => \A j \in JobIds :
           ~( /\ WellFormed(store[j])
              /\ Due(store[j], 0)
              /\ store[j].last_run_at = NULL
              /\ sent[j] = 0 )

(***************************************************************************)
(* C14.                                                                    *)
(***************************************************************************)
\* sender.send or a store update raises during a dispatch.  In the
\* immediate loop the finally discards the id and the except of line 556
\* confines the exception to the id; in the scheduled loop it leaves the for
\* and the try (line 603), so conn.close() is not reached.
DispatchError ==
    /\ pc \in {"imm_send", "sched_send"}
    /\ IF pc = "imm_send"
       THEN /\ INFLIGHT' = INFLIGHT \ {jobx.id}
            /\ ii' = ii + 1
            /\ jobx' = NoJob
            /\ pc' = "imm"
       ELSE /\ pc' = "sleep"
            /\ UNCHANGED <<INFLIGHT, ii, jobx>>
    /\ UNCHANGED <<cfg, sender, resolved, now, store, queue, control_token, resp,
                   leased, jobs, ji, immediate_ids, sres, sent, retry_count,
                   winCount, nreq, winRan>>

\* The engine with every fault of a cycle: store errors at lease and fetch,
\* sender and update errors during a dispatch, resolver errors.
NextFaulty ==
    \/ \E r \in EngineRequests : do_GET(r)
    \/ Lease
    \/ StoreError
    \/ FetchDue
    \/ Drain
    \/ ImmBegin
    \/ ImmFinish
    \/ ImmDone
    \/ SchedBegin
    \/ SchedFinish
    \/ DispatchError
    \/ Close
    \/ Sleep

\* the faults depend neither on the zones nor on the schedule type: the
\* default deployment, job 1 a ONCE row (well formed and due, malformed and
\* due, well formed and not yet due)
InitFaulty ==
    /\ Init
    /\ cfg = Deployment("Asia/Taipei", "+08:00", "Asia/Taipei")
    /\ Upper(store[1].schedule_type) = "ONCE"

SpecFaulty == InitFaulty /\ [][NextFaulty]_vars

\* the loop stands at a point of the cycle from which it goes on: the next
\* statement of the cycle can run, or (at the sleep) the next cycle can
\* start as long as the run has time left
LoopGoesOn ==
    /\ pc = "start" => ENABLED Lease
    /\ pc = "fetch" => ENABLED FetchDue
    /\ pc = "drain" => ENABLED Drain
    /\ pc = "imm" => ENABLED (ImmBegin \/ ImmDone)
    /\ pc = "sched" => ENABLED (SchedBegin \/ Close)
    /\ (pc = "sleep" /\ now + poll <= MaxTime) => ENABLED Sleep
    /\ pc \in {"start", "fetch", "drain", "imm", "imm_send", "sched",
               "sched_send", "sleep"}

\* C14: the poll loop has no terminal state: wherever the loop stands it
\* goes on, and every way out of a step that can raise (lease, fetch, the
\* dispatch of an immediate id, the dispatch of a scheduled job with its
\* send, resolver call and update) lands in the loop again: at the next
\* immediate id, at the next scheduled job, or at the sleep, which starts
\* another cycle.
C14_NoTerminalState ==
    /\ []LoopGoesOn
    /\ [][/\ pc \in {"start", "fetch"} => pc' \in {pc, "fetch", "drain", "sleep"}
          /\ pc = "imm_send" => pc' \in {pc, "imm"}
          /\ pc = "sched_send" => pc' \in {pc, "sched", "sleep"}
          /\ pc = "sleep" => pc' \in {pc, "start"}]_vars

\* a cycle that ended in an exception (its connection is still leased) was
\* followed by the sleep and by another cycle, which has leased again
C14_Witness ==
    /\ pc = "fetch"
    /\ now > 0
    /\ leased >= 2

(***************************************************************************)
(* C15.                                                                    *)
(***************************************************************************)
\* C15: the connection leased at the start of a cycle is released before
\* the cycle's sleep on every path, exception paths included: whenever the
\* loop is at its sleep, no connection is leased by the loop thread.
C15_ReleasedBeforeSleep == pc = "sleep" => leased = 0

(***************************************************************************)
(* C16.                                                                    *)
(***************************************************************************)
\* C16: within one cycle the drained immediate ids are all gone through
\* before any scheduled job is sent (while the immediate loop runs no
\* scheduled job has been taken; when a scheduled job is sent the immediate
\* loop is over and nothing is in flight), and a scheduled job is sent no
\* earlier than the jobs with a smaller fetched next_run_at.
C16_ImmediateFirstThenAscending ==
    /\ pc \in {"drain", "imm", "imm_send"} => ji = 1
    /\ pc = "sched_send"
         => /\ ii > Len(immediate_ids)
            /\ INFLIGHT = {}
            /\ \A k \in 1..Len(jobs) :
                 jobs[k].next_run_at < jobs[ji].next_run_at => k < ji

\* the second of two fetched jobs with different next_run_at is being sent
\* in a cycle that drained an immediate id
C16_Witness ==
    /\ pc = "sched_send"
    /\ ji = 2
    /\ jobs[1].next_run_at < jobs[2].next_run_at
    /\ Len(immediate_ids) >= 1

(***************************************************************************)
(* C17.                                                                    *)
(***************************************************************************)
\* The loop with a backlog: the control thread has accepted up to
\* MaxBacklog requests (distinct ids, none of them a row of the store)
\* before the first cycle; no job is due.
InitDrain ==
    /\ sender = NewSender
    /\ cfg = Deployment("Asia/Taipei", "+08:00", "Asia/Taipei")
    /\ resolved = NoResult
    /\ now = 0
    /\ store = [j \in JobIds |->
                  Row(j, FALSE, "DAILY", NULL, <<HM(1)>>, NoTok, {}, "", "HTTP",
                      0, NULL, T0)]
    /\ \E k \in 0..MaxBacklog :
         queue = [i \in 1..k |-> [id |-> 100 + i, tag |-> "-"]]
    /\ INFLIGHT = {}
    /\ control_token = "SECRET"
    /\ resp = NoResp
    /\ pc = "start"
    /\ leased = 0
    /\ jobs = <<>>
    /\ ji = 1
    /\ immediate_ids = <<>>
    /\ ii = 1
    /\ jobx = NoJob
    /\ sres = "none"
    /\ sent = NoSent
    /\ retry_count = [j \in JobIds |-> 0]
    /\ winCount = 0
    /\ nreq = 0
    /\ winRan = {}

NextDrain ==
    \/ Lease
    \/ FetchDue
    \/ Drain
    \/ ImmBegin
    \/ ImmDone
    \/ Close
    \/ Sleep

SpecDrain == InitDrain /\ [][NextDrain]_vars

\* C17: a cycle takes min(50, queue length) ids from the head of the queue,
\* in arrival order; what is beyond the cap stays queued in its order; the
\* ids taken are gone through in that order.
C17_DrainHeadFifo ==
    [][/\ (pc = "drain" /\ pc' = "imm")
            => LET n == Min({DrainCap, Len(queue)})
               IN  /\ Len(immediate_ids') = n
                   /\ \A i \in 1..n : immediate_ids'[i] = queue[i]
                   /\ Len(queue') = Len(queue) - n
                   /\ \A i \in 1..Len(queue') : queue'[i] = queue[n + i]
       /\ (pc = "imm" /\ ii' # ii) => (ii' = ii + 1 /\ immediate_ids' = immediate_ids)]_vars

\* a drain that met the cap: DrainCap ids taken, the rest still queued
C17_Witness ==
    /\ pc = "imm"
    /\ Len(immediate_ids) = DrainCap
    /\ Len(queue) >= 1
    /\ ii > 1

(***************************************************************************)
(* C18.                                                                    *)
(***************************************************************************)
\* C18: the scheduled path sends a job only if the job is eligible at the
\* moment its send starts: while a scheduled send is under way (nothing
\* has touched the store since it started) the stored row is enabled with
\* a non-null next_run_at <= now; and the job is one of at most batch jobs
\* of the cycle.
C18_SentOnlyIfEligible ==
    pc = "sched_send"
      => /\ Due(store[jobs[ji].id], now)
         /\ ji <= batch

(***************************************************************************)
(* C19.                                                                    *)
(***************************************************************************)
\* C19: the control context only enqueues: whatever the request, its
\* handling leaves every job row, the Sender (nothing sent, no send under
\* way), the in-flight set, the pool and the loop's locals as they were;
\* of the shared state only the immediate queue changes, and only by one
\* entry appended.
C19_ControlOnlyEnqueues ==
    [][/\ store' = store
       /\ sent' = sent
       /\ sres' = sres
       /\ INFLIGHT' = INFLIGHT
       /\ leased' = leased
       /\ retry_count' = retry_count
       /\ <<pc, jobs, ji, immediate_ids, ii, jobx>>' =
            <<pc, jobs, ji, immediate_ids, ii, jobx>>
       /\ control_token' = control_token
       /\ \/ queue' = queue
          \/ /\ Len(queue') = Len(queue) + 1
             /\ SubSeq(queue', 1, Len(queue)) = queue]_vars

\* a request for an existing job was accepted and is queued
C19_Witness ==
    /\ resp.code = 200
    /\ resp.req.path = "/run_immediate"
    /\ Len(queue) >= 1
    /\ queue[Len(queue)].id \in JobIds

(***************************************************************************)
(* The recurrence resolver alone.                                          *)
(***************************************************************************)
\* the rows given to the resolver: the rows of the engine, and a row in a
\* zone east of UTC on a UTC default
ResolverRows ==
    InitRows(1) \cup InitRows2(1)
      \cup { Row(1, TRUE, "WEEKLY", NULL, <<HM(1)>>, NoTok, {"Mon", "Thu"},
                 "Asia/Taipei", "HTTP", 0, NULL, T0),
             \* zone names ZoneInfo rejects
             Row(1, TRUE, "DAILY", NULL, <<HM(1)>>, NoTok, {}, "Mars/Phobos",
                 "HTTP", 0, NULL, T0),
             Row(1, TRUE, "ONCE", T0 + 3, <<>>, NoTok, {}, "Mars/Phobos",
                 "HTTP", 0, NULL, T0 + 3),
             \* run_at missing, unparseable, and a ONCE row with times
             Row(1, TRUE, "ONCE", NULL, <<>>, NoTok, {}, "", "HTTP", 0, NULL, T0),
             Row(1, TRUE, "ONCE", Unparseable, <<>>, NoTok, {}, "", "HTTP", 0,
                 NULL, T0),
             Row(1, TRUE, "ONCE", T0 + 3, <<HM(0)>>, HM(1), {"Mon"}, "UTC",
                 "HTTP", 0, NULL, T0 + 3),
             \* both time fields filled; blank parts; nothing at all
             Row(1, TRUE, "DAILY", NULL, <<HMS(1), HM(1)>>, HM(0), {}, "",
                 "HTTP", 0, NULL, T0),
             Row(1, TRUE, "DAILY", NULL, <<BlankTok>>, HM(1), {}, "", "HTTP",
                 0, NULL, T0),
             Row(1, TRUE, "DAILY", NULL, <<HM(1), HM(0), BlankTok, HMS(1)>>,
                 NoTok, {}, "", "HTTP", 0, NULL, T0),
             Row(1, TRUE, "WEEKLY", NULL, <<>>, NoTok, {"Mon"}, "", "HTTP", 0,
                 NULL, T0),
             \* weekday spellings
             Row(1, TRUE, "WEEKLY", NULL, <<HM(0)>>, NoTok,
                 {"MONDAY", "wednesday", "Wed", "fri", ""}, "", "HTTP", 0,
                 NULL, T0),
             Row(1, TRUE, "WEEKLY", NULL, <<HM(0), BadTok>>, NoTok, {"Xyz"}, "",
                 "HTTP", 0, NULL, T0) }

\* every instant of one week
ResolverInstants == 0 .. (DaysPerWeek * DayLen - 1)

InitResolver ==
    /\ sender = NewSender
    /\ cfg \in Deployments
    /\ resolved = NoResult
    /\ now \in ResolverInstants
    /\ jobx \in ResolverRows
    /\ store = [j \in JobIds |-> NoJob]
    /\ queue = <<>>
    /\ INFLIGHT = {}
    /\ control_token = "SECRET"
    /\ resp = NoResp
    /\ pc = "start"
    /\ leased = 0
    /\ jobs = <<>>
    /\ ji = 1
    /\ immediate_ids = <<>>
    /\ ii = 1
    /\ sres = "none"
    /\ sent = NoSent
    /\ retry_count = [j \in JobIds |-> 0]
    /\ winCount = 0
    /\ nreq = 0
    /\ winRan = {}

\* next_run=compute_next_run_at(fresh, default_tz)
Resolve ==
    /\ resolved = NoResult
    /\ resolved' = compute_next_run_at(jobx, default_timezone, now,
                                       _get_zoneinfo(host_timezone).off)
    /\ UNCHANGED <<cfg, sender, now, store, queue, INFLIGHT, control_token, resp, pc,
                   leased, jobs, ji, immediate_ids, ii, jobx, sres, sent,
                   retry_count, winCount, nreq, winRan>>

NextResolver == Resolve

SpecResolver == InitResolver /\ [][NextResolver]_vars

\* the resolver returned an instant (not None, no exception)
Returned == resolved # NoResult /\ ~resolved.raised /\ resolved.val # NULL

\* the zone the row is evaluated in: its own, or the engine default
RowZone(row) ==
    _get_zoneinfo(IF row.timezone = "" \/ ~_get_zoneinfo(row.timezone).known
                  THEN default_timezone ELSE row.timezone)

\* a value returned by the resolver (wall clock of default_timezone) and
\* the instant now, both as wall clock of zone z
InZone(v, z) == v - _get_zoneinfo(default_timezone).off + z.off
NowInZone(z) == now + z.off

(***************************************************************************)
(* C20.                                                                    *)
(***************************************************************************)
\* C20: whenever the resolver returns an instant t for a row evaluated at
\* now, t is strictly later than now, both read as wall clock in the row's
\* zone; t = now is never returned.
C20_StrictlyLater ==
    Returned => InZone(resolved.val, RowZone(jobx)) > NowInZone(RowZone(jobx))

(***************************************************************************)
(* C21.                                                                    *)
(***************************************************************************)
\* the zones a host process can run in
HostZones == {d.host_timezone : d \in Deployments}

\* C21: the resolver is a function of (row, now, default zone): the result
\* of an evaluation is the result of every evaluation with the same row,
\* the same now and the same default zone, whatever the zone of the
\* process that evaluates.
C21_Deterministic ==
    resolved # NoResult
      => \A h \in HostZones :
           compute_next_run_at(jobx, default_timezone, now,
                               _get_zoneinfo(h).off) = resolved

(***************************************************************************)
(* C22.                                                                    *)
(***************************************************************************)
\* the wall-clock instants (day, time) of the days today .. today + n - 1
\* in a zone where it is nowW, restricted to the weekdays dows
Candidates(times, dows, nowW, n) ==
    {d * DayLen + tt : d \in {x \in (nowW \div DayLen) .. ((nowW \div DayLen) + n - 1) :
                                Weekday(x) \in dows},
                       tt \in times}

\* the earliest of them strictly after nowW, or NULL
Earliest(times, dows, nowW, n) ==
    LET later == {c \in Candidates(times, dows, nowW, n) : c > nowW}
    IN  IF later = {} THEN NULL ELSE Min(later)

AllDays == 0 .. (DaysPerWeek - 1)

\* the row is a DAILY / WEEKLY / ONCE row whose times parse
IsType(row, stype) == Upper(row.schedule_type) = stype /\ _parse_times(row).ok

\* C22: for a DAILY job with a non-empty times list the resolver returns,
\* read in the job's zone, the minimum over the day offsets 0..13 and the
\* listed times of the wall-clock instants strictly greater than now in
\* the job's zone.
C22_DailyMinimum ==
    (resolved # NoResult /\ IsType(jobx, "DAILY")
       /\ _parse_times(jobx).times # {})
      => /\ Returned
         /\ InZone(resolved.val, RowZone(jobx)) =
              Earliest(_parse_times(jobx).times, AllDays,
                       NowInZone(RowZone(jobx)), DailyHorizon)

(***************************************************************************)
(* C23.                                                                    *)
(***************************************************************************)
\* C23: for a WEEKLY job with a non-empty times list and a non-empty
\* weekday set the resolver returns, read in the job's zone, the earliest
\* instant strictly after now in the job's zone whose weekday is in the set
\* and whose time of day is in the list (today only if a listed time is
\* still ahead).
C23_WeeklyEarliest ==
    (resolved # NoResult /\ IsType(jobx, "WEEKLY")
       /\ _parse_times(jobx).times # {}
       /\ _parse_days(jobx.days_of_week) # {})
      => /\ Returned
         /\ InZone(resolved.val, RowZone(jobx)) =
              Earliest(_parse_times(jobx).times,
                       _parse_days(jobx.days_of_week),
                       NowInZone(RowZone(jobx)), WeeklyHorizon)

(***************************************************************************)
(* C24.                                                                    *)
(***************************************************************************)
\* the row's zone field is empty or names a zone
ZoneParses(row) == row.timezone = "" \/ _get_zoneinfo(row.timezone).known

\* C24: for a ONCE job (here: one whose zone is empty or parses) the
\* resolver returns none when run_at is missing, unparseable or not
\* strictly later than now in the job's zone, and otherwise run_at (read in
\* the job's zone); whatever times_of_day, time_of_day and days_of_week
\* hold.
C24_OnceRunAt ==
    (resolved # NoResult /\ Upper(jobx.schedule_type) = "ONCE"
       /\ ZoneParses(jobx))
      => /\ ~resolved.raised
         /\ IF \/ jobx.run_at \in {NULL, Unparseable}
               \/ jobx.run_at <= NowInZone(RowZone(jobx))
            THEN resolved.val = NULL
            ELSE /\ resolved.val # NULL
                 /\ InZone(resolved.val, RowZone(jobx)) = jobx.run_at

(***************************************************************************)
(* C25.                                                                    *)
(***************************************************************************)
\* the times the non-blank parts of times_of_day name
PartTimes(row) ==
    {_parse_time_of_day(row.times_of_day[i]).t :
       i \in {n \in DOMAIN row.times_of_day : row.times_of_day[n].k # "BLANK"}}

\* C25: the times list the resolver uses (for a row whose time fields
\* parse) has no duplicates and ascends; it holds the times of times_of_day
\* when that field names any, only otherwise the single time_of_day; it is
\* the set the resolver walks; and when both fields are empty a DAILY or
\* WEEKLY row resolves to none.
C25_TimesList ==
    _parse_times(jobx).ok
      => LET L == _parse_times_list(jobx)
         IN  /\ \A i, j \in DOMAIN L : i < j => L[i] < L[j]
             /\ PartTimes(jobx) # {} => Range(L) = PartTimes(jobx)
             /\ (PartTimes(jobx) = {} /\ jobx.time_of_day.k \in {"HM", "HMS"})
                  => L = <<jobx.time_of_day.v>>
             /\ _parse_times(jobx).times = Range(L)
             /\ (PartTimes(jobx) = {} /\ jobx.time_of_day.k \in {"NULL", "BLANK"})
                  => /\ L = <<>>
                     /\ (resolved # NoResult
                           /\ Upper(jobx.schedule_type) \in {"DAILY", "WEEKLY"})
                          => resolved = Ret(NULL)

\* a row whose times_of_day is out of order with a duplicate and a blank
\* part has been resolved to an instant
C25_Witness ==
    /\ Returned
    /\ Len(jobx.times_of_day) >= 3
    /\ \E i, j \in DOMAIN jobx.times_of_day :
         /\ i < j
         /\ jobx.times_of_day[i].k # "BLANK" /\ jobx.times_of_day[j].k # "BLANK"
         /\ jobx.times_of_day[i].v > jobx.times_of_day[j].v

(***************************************************************************)
(* C26.                                                                    *)
(***************************************************************************)
\* C26: when the row's timezone is empty or names no zone, the result is
\* the result for the same row with timezone set to the engine default,
\* whatever the zone of the host process.
C26_FallsBackToDefaultZone ==
    (resolved # NoResult /\ ~(jobx.timezone # "" /\ ZoneParses(jobx)))
      => resolved =
           compute_next_run_at([jobx EXCEPT !.timezone = default_timezone],
                               default_timezone, now,
                               _get_zoneinfo(host_timezone).off)

(***************************************************************************)
(* C27.                                                                    *)
(***************************************************************************)
\* the wall-clock instant in the job's zone the schedule of the row picks
\* at now: run_at for ONCE, the earliest listed instant for DAILY / WEEKLY
ChosenWall(row) ==
    LET nowW == NowInZone(RowZone(row))
        times == _parse_times(row).times
    IN  CASE Upper(row.schedule_type) = "ONCE" -> row.run_at
          [] Upper(row.schedule_type) = "DAILY" ->
               Earliest(times, AllDays, nowW, DailyHorizon)
          [] Upper(row.schedule_type) = "WEEKLY" ->
               Earliest(times, _parse_days(row.days_of_week), nowW,
                        WeeklyHorizon)
          [] OTHER -> NULL

\* C27: the instant the resolver returns (for a row whose zone is empty or
\* parses), read as a naive datetime of the session zone
\* mysql_session_time_zone, is the same absolute instant as the chosen
\* wall clock in the job's zone.
C27_SessionZoneInstant ==
    (Returned /\ ZoneParses(jobx))
      => resolved.val - MysqlOffset(mysql_session_time_zone)
           = ChosenWall(jobx) - RowZone(jobx).off

(***************************************************************************)
(* C28.                                                                    *)
(***************************************************************************)
\* the weekday a token names, in any letter case, short or full; NULL for
\* any other token
DayNamed(t) ==
    CASE Upper(t) \in {"MON", "MONDAY"}    -> 0
      [] Upper(t) \in {"TUE", "TUESDAY"}   -> 1
      [] Upper(t) \in {"WED", "WEDNESDAY"} -> 2
      [] Upper(t) \in {"THU", "THURSDAY"}  -> 3
      [] Upper(t) \in {"FRI", "FRIDAY"}    -> 4
      [] Upper(t) \in {"SAT", "SATURDAY"}  -> 5
      [] Upper(t) \in {"SUN", "SUNDAY"}    -> 6
      [] OTHER                             -> NULL

\* C28: weekday parsing maps short and full names in any letter case to
\* Mon=0..Sun=6, as a set, and drops every other token; and a WEEKLY row
\* whose days_of_week holds no known token resolves to none.
C28_WeekdayParsing ==
    /\ _parse_days(jobx.days_of_week)
         = {DayNamed(t) : t \in jobx.days_of_week} \ {NULL}
    /\ (resolved # NoResult /\ Upper(jobx.schedule_type) = "WEEKLY"
          /\ \A t \in jobx.days_of_week : DayNamed(t) = NULL)
         => resolved = Ret(NULL)

(***************************************************************************)
(* C29.                                                                    *)
(***************************************************************************)
\* the channel of the row is neither HTTP nor MQTT
Unsupported(row) == Upper(row.channel) \notin {"HTTP", "MQTT"}

\* C29: a dispatch of a job whose channel is neither HTTP nor MQTT gets a
\* failed send (never a success, never an exception of the Sender), and
\* the failure rule is applied to the job: with max_retries > 0 the retry
\* instant is written, otherwise the row is advanced (updated, with a
\* next_run_at) or paused (enabled = false).
C29_UnsupportedChannelFails ==
    [][\A j \in JobIds :
         (FinishStep(j) /\ Unsupported(DispatchedRow))
           => /\ sres' = "fail"
              /\ IF MaxRetriesOf(DispatchedRow) > 0
                 THEN store'[j].next_run_at
                        = HostNow(now) + BackoffOf(DispatchedRow)
                 ELSE \/ ~store'[j].enabled
                      \/ /\ store'[j].last_run_at = StoreNow(now)
                         /\ store'[j].next_run_at # NULL]_vars

(***************************************************************************)
(* The engine with an operator editing rows from another session.          *)
(***************************************************************************)
\* An edit of the schedule of a row by the admin tool: a DAILY row is made
\* a ONCE row whose run_at has passed, or its time of day is moved.  Each
\* edit applies to a row once.
OperatorEdit ==
    /\ \E j \in JobIds :
         /\ Upper(store[j].schedule_type) = "DAILY"
         /\ store[j].times_of_day = <<HM(1)>>
         /\ \/ store' = [store EXCEPT ![j].schedule_type = "ONCE",
                                      ![j].run_at = T0]
            \/ store' = [store EXCEPT ![j].times_of_day = <<HM(0)>>]
    /\ UNCHANGED <<cfg, sender, resolved, now, queue, INFLIGHT, control_token, resp,
                   pc, leased, jobs, ji, immediate_ids, ii, jobx, sres, sent,
                   retry_count, winCount, nreq, winRan>>

\* st as the loop's transaction sees it when row is its snapshot of the job
Snapshot(st, row) == IF HasRow(st, row.id) THEN [st EXCEPT ![row.id] = row] ELSE st

\* st after the UPDATE that turned the snapshot snap into upd: the columns
\* the engine writes (enabled, next_run_at, last_run_at) of job id
Written(st, upd, id) ==
    IF HasRow(st, id)
    THEN [st EXCEPT ![id].enabled = upd[id].enabled,
                    ![id].next_run_at = upd[id].next_run_at,
                    ![id].last_run_at = upd[id].last_run_at]
    ELSE st

\* ImmFinish on a connection whose transaction reads from its snapshot
\* (autocommit off, REPEATABLE READ): fetch_job_by_id after the send
\* (line 467/492) returns what fetch_job_by_id before the send (line 541)
\* returned, no commit lying between the two
ImmFinishSnapshot ==
    /\ pc = "imm_send"
    /\ sres' \in SendOutcomes(jobx)
    /\ LET o == _execute_one(Snapshot(store, jobx), jobx, sres' = "ok", now)
       IN  /\ store' = IF o.raised THEN store ELSE Written(store, o.st, jobx.id)
           /\ retry_count' = CountRetry(retry_count, jobx.id, o)
    /\ INFLIGHT' = INFLIGHT \ {jobx.id}
    /\ ii' = ii + 1
    /\ jobx' = NoJob
    /\ winCount' = 0
    /\ pc' = "imm"
    /\ UNCHANGED <<cfg, sender, resolved, now, queue, control_token, resp, leased, jobs, ji,
                   immediate_ids, sent, nreq, winRan>>

\* SchedFinish on such a connection, for the first dispatch of a cycle: no
\* commit lies between fetch_due_jobs (line 535) and fetch_job_by_id (line
\* 575/593), which returns the row as fetch_due_jobs saw it
SchedFinishSnapshot ==
    /\ pc = "sched_send"
    /\ ji = 1
    /\ immediate_ids = <<>>
    /\ sres' \in SendOutcomes(jobs[ji])
    /\ LET o == LoopDispatch(Snapshot(store, jobs[ji]), jobs[ji], sres' = "ok", now)
       IN  /\ store' = IF o.raised THEN store
                       ELSE Written(store, o.st, jobs[ji].id)
           /\ retry_count' = CountRetry(retry_count, jobs[ji].id, o)
           /\ pc' = IF o.raised THEN "sleep" ELSE "sched"
    /\ ji' = ji + 1
    /\ UNCHANGED <<cfg, sender, resolved, now, queue, INFLIGHT, control_token, resp, leased, jobs,
                   immediate_ids, ii, jobx, sent, winCount, nreq, winRan>>

\* well-formed DAILY rows, the default deployment
InitEdit ==
    /\ Init
    /\ cfg = Deployment("Asia/Taipei", "+08:00", "Asia/Taipei")
    /\ \A j \in JobIds : /\ store[j].times_of_day = <<HM(1)>>
                         /\ Upper(store[j].schedule_type) = "DAILY"

NextEdit ==
    \/ \E r \in EngineRequests : do_GET(r)
    \/ OperatorEdit
    \/ Lease
    \/ FetchDue
    \/ Drain
    \/ ImmBegin
    \/ ImmFinish
    \/ ImmFinishSnapshot
    \/ ImmDone
    \/ SchedBegin
    \/ SchedFinish
    \/ SchedFinishSnapshot
    \/ Close
    \/ Sleep

SpecEdit == InitEdit /\ [][NextEdit]_vars

(***************************************************************************)
(* C30.                                                                    *)
(***************************************************************************)
\* C30: the decision after a successful send is that of the row as it is
\* in the store when the send is over, edits made since the fetch
\* included: a row that is ONCE by then is disabled; a recurring row gets
\* the next_run_at its fields of then resolve to, or is paused when they
\* resolve to none.
C30_DecisionFromEditedRow ==
    [][\A j \in JobIds :
         (FinishStep(j) /\ sres' = "ok")
           => LET r == compute_next_run_at(store[j], default_timezone, now,
                                           _get_zoneinfo(host_timezone).off)
              IN  ~r.raised
                    => /\ IsOnce(store[j]) => ~store'[j].enabled
                       /\ (~IsOnce(store[j]) /\ r.val = NULL) => ~store'[j].enabled
                       /\ (~IsOnce(store[j]) /\ r.val # NULL)
                            => /\ store'[j].enabled
                               /\ store'[j].next_run_at = r.val]_vars

(***************************************************************************)
(* C31.                                                                    *)
(***************************************************************************)
\* C31: the inline code of the scheduled branch and _execute_one are the
\* same procedure on the store: the store a scheduled dispatch leaves is
\* the one _execute_one leaves for the same row, send outcome and now, and
\* the store an immediate dispatch leaves is the one the inline code
\* leaves.
C31_SameProcedure ==
    [][\A j \in JobIds :
         /\ SchedFinishStep(j)
              => store' = _execute_one(store, jobs[ji], sres' = "ok", now).st
         /\ ImmFinishStep(j)
              => store' = LoopDispatch(store, jobx, sres' = "ok", now).st]_vars

\* job 1 has been dispatched by both paths in one cycle, and the scheduled
\* dispatch has written the row
C31_Witness ==
    /\ pc = "sched"
    /\ ji > 1
    /\ jobs[ji - 1].id = 1
    /\ sent[1] >= 2
    /\ store[1].last_run_at # NULL

(***************************************************************************)
(* C32.                                                                    *)
(***************************************************************************)
\* the ids of the dispatches in progress: begun, post-policy update not yet
\* completed or raised
InDispatch ==
    IF pc = "sched_send" THEN {jobs[ji].id}
    ELSE IF pc = "imm_send" THEN {jobx.id}
    ELSE {}

\* C32: the in-flight set holds exactly the ids whose dispatch, scheduled
\* or immediate, is in progress; at the boundary of a poll cycle (before
\* the lease, during the sleep) it is empty.
C32_InflightWhileDispatched ==
    /\ INFLIGHT = InDispatch
    /\ pc \in {"start", "sleep"} => INFLIGHT = {}

(***************************************************************************)
(* C33.                                                                    *)
(***************************************************************************)
\* C33: no step of the engine sets enabled to true on a row whose enabled
\* is false.
C33_NeverReenabled ==
    [][\A j \in JobIds : ~store[j].enabled => ~store'[j].enabled]_vars

(***************************************************************************)
(* C34.                                                                    *)
(***************************************************************************)
\* the post-policy update of the dispatch in progress completes when the
\* send gives ok: no exception leaves the procedure before its UPDATE
UpdateCompletes(ok) ==
    IF pc = "sched_send" THEN ~LoopDispatch(store, jobs[ji], ok, now).raised
    ELSE ~_execute_one(store, jobx, ok, now).raised

\* C34: a dispatch whose post-policy update completes (ONCE sunset,
\* advance, pause, retry scheduling, failure advance) leaves the row with
\* last_run_at equal to the store's NOW() of that update.
C34_LastRunAtEveryAttempt ==
    [][\A j \in JobIds :
         (FinishStep(j) /\ UpdateCompletes(sres' = "ok"))
           => store'[j].last_run_at = StoreNow(now)]_vars

\* a retry has just been scheduled for a job that had run before, at a
\* later instant than its last run
C34_Witness ==
    /\ pc \in {"imm", "sched"}
    /\ sres = "fail"
    /\ \E j \in JobIds : /\ retry_count[j] >= 2
                         /\ store[j].last_run_at = StoreNow(now)
                         /\ now > 0

(***************************************************************************)
(* The Sender on its own: MQTT sends while the network thread of the       *)
(* client reports connections and disconnections.                          *)
(***************************************************************************)
EngineIdle ==
    <<cfg, resolved, now, store, queue, INFLIGHT, control_token, resp, pc,
      leased, jobs, ji, immediate_ids, ii, jobx, sres, sent, retry_count,
      winCount, nreq, winRan>>

\* _on_connect(client, userdata, flags, rc)
_on_connect ==
    /\ sender.has_mqtt
    /\ \E rc \in {0, 5} : sender' = [sender EXCEPT !.mqtt_ready = (rc = 0)]
    /\ UNCHANGED EngineIdle

\* _on_disconnect(client, userdata, rc)
_on_disconnect ==
    /\ sender.has_mqtt
    /\ sender' = [sender EXCEPT !.mqtt_ready = FALSE]
    /\ UNCHANGED EngineIdle

\* sender.send(job) for a job of channel MQTT
SendMqtt ==
    /\ \E topic \in Topics, qos \in QosLevels, cr \in BOOLEAN,
          pub \in PublishOutcomes :
         LET c == Call(topic, qos, sender.mqtt_ready, cr, pub)
         IN  sender' = [sender EXCEPT !.call = c, !.out = _send_mqtt(sender, c)]
    /\ UNCHANGED EngineIdle

\* Sender(cfg) as constructed, with or without the paho library; the
\* engine has not started
InitSender ==
    /\ sender \in {SenderObj(h, FALSE, NoCall, NoOut) : h \in BOOLEAN}
    /\ cfg = Deployment("Asia/Taipei", "+08:00", "Asia/Taipei")
    /\ resolved = NoResult
    /\ now = 0
    /\ jobx = NoJob
    /\ store = [j \in JobIds |-> NoJob]
    /\ queue = <<>>
    /\ INFLIGHT = {}
    /\ control_token = "SECRET"
    /\ resp = NoResp
    /\ pc = "start"
    /\ leased = 0
    /\ jobs = <<>>
    /\ ji = 1
    /\ immediate_ids = <<>>
    /\ ii = 1
    /\ sres = "none"
    /\ sent = NoSent
    /\ retry_count = [j \in JobIds |-> 0]
    /\ winCount = 0
    /\ nreq = 0
    /\ winRan = {}

NextSender == _on_connect \/ _on_disconnect \/ SendMqtt

SpecSender == InitSender /\ [][NextSender]_vars

(***************************************************************************)
(* C35.                                                                    *)
(***************************************************************************)
\* a call of _send_mqtt has been made
Called == sender.out # NoOut

\* the part of the claim on the results: a reconnect attempt that raises
\* gives failure and no publish; a publish that returns a non-zero code
\* gives ok = false with that code
ReconnectAndPublishResults ==
    /\ (sender.out.connects > 0 /\ sender.call.connect_raises)
         => /\ ~sender.out.ret.ok
            /\ ~sender.out.published
    /\ (sender.out.published /\ ~sender.call.pub.raised /\ sender.call.pub.rc # 0)
         => /\ ~sender.out.ret.ok
            /\ sender.out.ret.code = sender.call.pub.rc

\* C35 as stated: an MQTT send made while mqtt_ready is false makes exactly
\* one reconnect attempt; a reconnect attempt that raises gives failure
\* without a publish; a non-zero publish code is reported as ok = false
\* with that code.
C35_OneReconnectPerSend ==
    Called => /\ ~sender.call.ready => sender.out.connects = 1
              /\ ReconnectAndPublishResults

\* C35 with the cases in which _send_mqtt returns before it looks at
\* mqtt_ready left out: the reconnect attempt is made exactly once when
\* the client library is present and the job has a topic, and then only;
\* a send made while mqtt_ready is true makes none.
C35_OneReconnectPerSendWithTopic ==
    Called => /\ (~sender.call.ready /\ sender.has_mqtt /\ sender.call.topic # "")
                   => sender.out.connects = 1
              /\ (sender.call.ready \/ ~sender.has_mqtt \/ sender.call.topic = "")
                   => sender.out.connects = 0
              /\ ReconnectAndPublishResults

\* a send with a topic, made while not connected, whose reconnect attempt
\* raised
C35_Witness ==
    /\ Called
    /\ ~sender.call.ready
    /\ sender.call.topic # ""
    /\ sender.call.connect_raises
    /\ sender.out.connects = 1
    /\ ~sender.out.published

(***************************************************************************)
(* C36.                                                                    *)
(***************************************************************************)
\* a ONCE row without retries whose run_at has been reached in its zone
OnceElapsedNoRetry(row) ==
    /\ IsOnce(row)
    /\ MaxRetriesOf(row) = 0
    /\ row.run_at \notin {NULL, Unparseable}
    /\ row.run_at <= NowInZone(RowZone(row))

\* C36: a scheduled dispatch of a ONCE job with max_retries = 0 whose
\* run_at is not later than now leaves the row disabled whatever the send
\* gave (sunset on success, pause on failure), so the scheduled path does
\* not send it a second time.
C36_OnceSentAtMostOnce ==
    [][\A j \in JobIds :
         (SchedFinishStep(j) /\ OnceElapsedNoRetry(store[j]))
           => ~store'[j].enabled]_vars

(***************************************************************************)
(* The engine over enough poll cycles for the connection pool to run out.  *)
(***************************************************************************)
\* the last instant of a run in which the loop can lease every connection
\* of the pool and start one cycle more
PoolRunLength == MaxTime + (pool_size + 1) * poll

\* time.sleep(poll), as Sleep, in the longer run
SleepOn ==
    /\ pc = "sleep"
    /\ now + poll <= PoolRunLength
    /\ now' = now + poll
    /\ pc' = "start"
    /\ jobs' = <<>>
    /\ ji' = 1
    /\ immediate_ids' = <<>>
    /\ ii' = 1
    /\ sent' = NoSent
    /\ sres' = "none"
    /\ UNCHANGED <<cfg, sender, resolved, store, queue, INFLIGHT, control_token, resp, leased,
                   jobx, retry_count, winCount, nreq, winRan>>

\* the default deployment, job 1 a ONCE row
InitPool ==
    /\ Init
    /\ cfg = Deployment("Asia/Taipei", "+08:00", "Asia/Taipei")
    /\ Upper(store[1].schedule_type) = "ONCE"

NextPool ==
    \/ \E r \in EngineRequests : do_GET(r)
    \/ Lease
    \/ FetchDue
    \/ Drain
    \/ ImmBegin
    \/ ImmFinish
    \/ ImmDone
    \/ SchedBegin
    \/ SchedFinish
    \/ Close
    \/ SleepOn

SpecPool == InitPool /\ [][NextPool]_vars

(***************************************************************************)
(* C37.                                                                    *)
(***************************************************************************)
\* the drain step moves the head of the queue into the cycle's list:
\* nothing is lost, nothing is taken twice
DrainMoves == immediate_ids' \o queue' = queue

\* C37: an accepted request is put on the queue once; a poll cycle that
\* starts with requests queued goes on to its drain step (the store being
\* reachable); the drain moves the queued entries into the cycle's list
\* without loss or duplication; the cycle leaves the immediate loop only
\* when every drained entry has been gone through, each entry in one step
\* (an execution, or a skip).
C37_AcceptedRequestsDrained ==
    [][/\ (resp' # resp /\ resp'.code = 200 /\ resp'.req.path = "/run_immediate")
            => /\ Len(queue') = Len(queue) + 1
               /\ queue'[Len(queue')].id = ParseInt(resp'.req.job_id)
       /\ (pc = "start" /\ pc' # "start" /\ queue # <<>>) => pc' = "fetch"
       /\ (pc = "drain" /\ pc' # "drain") => DrainMoves
       /\ (pc = "imm" /\ pc' = "sched") => ii > Len(immediate_ids)
       /\ (pc \in {"imm", "imm_send"} /\ ii' # ii) => ii' = ii + 1]_vars

(***************************************************************************)
(* The engine with every fault of the immediate loop.                      *)
(***************************************************************************)
\* fetch_job_by_id(conn, int(jid)) raises in the immediate loop (line 541):
\* the except of line 556 logs it and the for goes on with the next id
ImmFetchError ==
    /\ pc = "imm"
    /\ ii <= Len(immediate_ids)
    /\ ii' = ii + 1
    /\ UNCHANGED <<cfg, sender, resolved, now, store, queue, INFLIGHT,
                   control_token, resp, pc, leased, jobs, ji, immediate_ids,
                   jobx, sres, sent, retry_count, winCount, nreq, winRan>>

NextImmFaulty == NextFaulty \/ ImmFetchError

SpecImmFaulty == InitFaulty /\ [][NextImmFaulty]_vars

(***************************************************************************)
(* C38.                                                                    *)
(***************************************************************************)
\* C38: whatever happens while a drained immediate id is processed (the
\* row fetch, the send, the resolver or the update raising included), the
\* loop goes on with the next drained id, the id is no longer in flight,
\* and the lists of the cycle are untouched; the immediate loop is left
\* only when every drained id has been gone through, and the scheduled
\* loop then starts at the first fetched job.
C38_ImmediateErrorConfined ==
    [][/\ (pc = "imm_send" /\ pc' # "imm_send")
            => /\ pc' = "imm"
               /\ ii' = ii + 1
               /\ jobx.id \notin INFLIGHT'
       /\ (pc = "imm" /\ ii <= Len(immediate_ids) /\ pc' # "imm")
            => pc' = "imm_send" /\ ii' = ii
       /\ (pc = "imm" /\ pc' = "imm" /\ ii' # ii) => ii' = ii + 1
       /\ (pc \in {"imm", "imm_send"} /\ pc' \in {"imm", "imm_send", "sched"})
            => /\ jobs' = jobs
               /\ ji' = 1
               /\ immediate_ids' = immediate_ids
       /\ (pc \in {"imm", "imm_send"} /\ pc' \notin {"imm", "imm_send"})
            => pc' = "sched" /\ ii > Len(immediate_ids)]_vars

\* two ids were drained; the processing of the first raised (the row is
\* malformed and was left untouched), the second has been gone through, and
\* a scheduled job of the cycle is being sent
C38_Witness ==
    /\ pc = "sched_send"
    /\ Len(immediate_ids) >= 2
    /\ ii > Len(immediate_ids)
    /\ immediate_ids[1].id = 1
    /\ ~_parse_times(store[1]).ok
    /\ store[1].last_run_at = NULL

(***************************************************************************)
(* C39.                                                                    *)
(***************************************************************************)
\* the longer run with store errors at lease and fetch
NextPoolFaulty == NextPool \/ StoreError

SpecPoolFaulty == InitPool /\ [][NextPoolFaulty]_vars

\* the cycle ends at the lease or at the fetch: pool.get_connection(),
\* set_mysql_session_tz or fetch_due_jobs raised
EndsBeforeDrain == pc \in {"start", "fetch"} /\ pc' = "sleep"

\* C39: only the drain step takes ids off the immediate queue; a cycle
\* that ends at the lease or at the fetch leaves the queue as it is, and
\* leaves the loop able to lease a connection in a later cycle, which then
\* serves the queued requests.
C39_QueueKeptOnStoreError ==
    [][/\ Len(queue') < Len(queue) => pc = "drain"
       /\ EndsBeforeDrain => queue' = queue
       /\ (EndsBeforeDrain /\ queue # <<>>) => leased' < pool_size]_vars

====
